---- MODULE Spec2Model ----
(***************************************************************************)
(* The websocket turn server of src/main.py.                               *)
(*                                                                         *)
(* One handler (websocket_endpoint) runs per connection.  It creates the   *)
(* session for the client's sessionId in the process-wide session          *)
(* service, then loops: receive one user text, start the agent's event     *)
(* stream for the turn (runner.run_async) and hand it to                   *)
(* process_and_send_agent_events, which buffers the text of partial        *)
(* events and writes frames to the websocket.                              *)
(*                                                                         *)
(* Every `await` of the code is a point where another handler or the       *)
(* client may act, so each action below is the code between two awaits.    *)
(* Texts are strings and are concatenated with \o, as the code does with   *)
(* +=.  The framework (Starlette) and the agent runtime (ADK) are outside  *)
(* the repository: the model draws their answers (the next event of a      *)
(* stream, the outcome of a write) from small sets.                        *)
(*                                                                         *)
(* The agents of src/response_agent/agent.py are modelled next to it:      *)
(* the Firestore client `db` made when the module is loaded, the tool      *)
(* save_response_to_file_and_db, the three workers of ConcurrentFetch      *)
(* with their output keys, and the steps the instruction of root_agent     *)
(* prescribes for a turn (gather, save on request).  The variable `agent`  *)
(* holds their state.                                                      *)
(***************************************************************************)
EXTENDS Integers, Sequences, FiniteSets, TLC

VARIABLES conn, registry, run, agent

vars == <<conn, registry, run, agent>>

\* ------------------------------------------------------------------ bounds

\* Events one turn's stream yields at most.
MaxEvents == 3
\* Frames a client sends on one connection at most.
MaxMsgs == 2
\* Parts one event's content holds at most.
MaxParts == 2
\* Turns one conversation with root_agent has at most.
MaxTurns == 3
\* The same limits in the runs where two connections are open at once.
SharedMaxEvents == 2
SharedMaxMsgs == 1
SharedMaxParts == 1

\* The connections of the run and the sessionIds their clients may choose.
Conns == {"c1", "c2"}
SessionIds == {"s1", "s2"}

\* The text of one part; "" stands for a part with no text or an empty one
\* (both are falsy at line 90).
Chunks == {"", "a", "b"}

\* The texts of the runs where two connections are open at once.
SharedChunks == {"a"}

\* The text of a part after the first; the code reads parts[0] only
\* (line 89), so "z" marks text that only a later part carries.
RestChunks == {"", "z"}

\* event.content.parts; <<>> stands for no content or no parts (both falsy
\* at line 88).
PartSeqs ==
    UNION {{p \in [1..n -> Chunks \cup RestChunks] :
              \A i \in 1..n : p[i] \in (IF i = 1 THEN Chunks ELSE RestChunks)} :
           n \in 0..MaxParts}

\* The events runner.run_async may yield, by the attributes the code probes.
Events ==
    [turn_complete : BOOLEAN, interrupted : BOOLEAN, partial : BOOLEAN,
     parts : PartSeqs]

\* ------------------------------------------------------------------ frames

\* A frame is the JSON object handed to websocket.send_text.  An optional
\* key is a sequence of zero or one values.
Frame(message, error, interrupted, turn_complete) ==
    [message |-> message, error |-> error, interrupted |-> interrupted,
     turn_complete |-> turn_complete]

\* {"message": buf}                                   (lines 69, 78)
MessageFrame(text) == Frame(<<text>>, <<>>, FALSE, FALSE)
\* {"turn_complete": true}                            (lines 72, 99)
TurnCompleteFrame == Frame(<<>>, <<>>, FALSE, TRUE)
\* {"interrupted": true, "turn_complete": true}       (line 81)
InterruptedFrame == Frame(<<>>, <<>>, TRUE, TRUE)
\* {"message": buf, "turn_complete": true}            (line 96)
EndOfStreamFrame(text) == Frame(<<text>>, <<>>, FALSE, TRUE)
\* {"error": str(e), "turn_complete": true}           (lines 109, 166)
ErrorFrame == Frame(<<>>, <<"e">>, FALSE, TRUE)

\* ------------------------------------------------- response_agent/agent.py

\* The sub_agents of ConcurrentFetch (line 128), by name (lines 103, 111, 119).
Workers == {"CEO", "Senior_Manager", "Specialist"}

\* output_key of each worker (lines 107, 115, 123).
OutputKey ==
    [w \in Workers |->
        CASE w = "CEO" -> "ceo_response"
          [] w = "Senior_Manager" -> "manager_response"
          [] w = "Specialist" -> "specialist_response"]

\* The final response texts a worker may give.
Responses == {"r1", "r2"}

\* What the workers of one run of ConcurrentFetch give: a final response
\* for each worker that gave one.
GroupOutputs == UNION {[S -> Responses] : S \in SUBSET Workers}

\* What root_agent has to pass as response_content when its context holds
\* nothing under the key (step 4b finds no text).
MissingText == ""

\* Lines 65-72: db stays None unless a Firebase app exists and
\* firestore.client() returns.
FirestoreClient(apps, ok) == IF apps /\ ok THEN "client" ELSE "None"

\* Line 97.
SuccessMessage(agent_name) ==
    "Successfully saved response from " \o agent_name \o " to Firebase database."

\* Line 100; "e" stands for str(e).
ErrorMessage(agent_name) ==
    "Error saving response from " \o agent_name \o " to Firebase database: e"

\* The module after it is loaded (lines 32-72): no turn yet, nothing in the
\* session state, nothing written to the agent_responses collection.  Of
\* the current turn the record keeps the key asked for, the texts passed to
\* the tool, what the tool returned (no value, or one string), what became
\* of the write, the numbers of tool calls and of worker runs, and the
\* context the turn began with.
Loaded(apps, ok) ==
    [db |-> FirestoreClient(apps, ok), context |-> <<>>, records |-> <<>>,
     turn |-> 0, kind |-> "none", key |-> "none", passed |-> <<>>,
     outcome |-> <<>>, wrote |-> "none",
     calls |-> 0, runs |-> 0, before |-> <<>>]

\* Lines 74-100: the tool, called with the outcome w of the write to the
\* collection (lines 89-94).  With a client the record is added, or the
\* exception of the write is caught (line 99); without one the `if` of line
\* 88 is skipped and line 97 returns all the same.
save_response_to_file_and_db(a, response_content, agent_name, w) ==
    LET called == [a EXCEPT !.calls = @ + 1,
                            !.passed = Append(@, response_content)]
    IN  IF a.db = "client"
        THEN IF w = "ok"
             THEN [called EXCEPT
                      !.records = Append(@, [agent_name |-> agent_name,
                                             response_content |-> response_content]),
                      !.wrote = "ok",
                      !.outcome = <<SuccessMessage(agent_name)>>]
             ELSE [called EXCEPT !.wrote = "failed",
                                 !.outcome = <<ErrorMessage(agent_name)>>]
        ELSE [called EXCEPT !.wrote = "skipped",
                            !.outcome = <<SuccessMessage(agent_name)>>]

\* A user message starts a turn of root_agent.
BeginTurn(a, kind) ==
    [a EXCEPT !.turn = @ + 1, !.kind = kind, !.key = "none", !.passed = <<>>,
              !.outcome = <<>>, !.wrote = "none",
              !.calls = 0, !.runs = 0, !.before = a.context]

\* Lines 126-129 and step 1 of the instruction (line 139): ConcurrentFetch
\* runs the three workers; the final response of each is stored under its
\* output_key, replacing what the key held.
RunConcurrentFetch(a, out) ==
    LET written == {OutputKey[w] : w \in DOMAIN out} IN
    [a EXCEPT !.runs = @ + Cardinality(Workers),
              !.context =
                  [k \in (DOMAIN a.context) \cup written |->
                      IF k \in written
                      THEN out[CHOOSE w \in DOMAIN out : OutputKey[w] = k]
                      ELSE a.context[k]]]

\* Steps 1-3 of the instruction (lines 139-141): a query is answered by
\* running ConcurrentFetch and presenting what it stored.
OnQuery(a, out) == RunConcurrentFetch(BeginTurn(a, "gather"), out)

\* A save that gathers afresh before it saves.
OnSaveRequestRerunning(a, w, o) ==
    LET g == RunConcurrentFetch(BeginTurn(a, "save"), [v \in Workers |-> "r2"])
        k == OutputKey[w]
    IN  save_response_to_file_and_db([g EXCEPT !.key = k], g.context[k], w, o)

\* Steps 4 and 5 of the instruction (lines 142-149): the user asks to save
\* the response of worker w; the text is taken from the context under the
\* worker's key (4b) and passed to the tool with the worker's name (4c-4e);
\* ConcurrentFetch is not run (5).
OnSaveRequest(a, w, o) ==
    LET g == BeginTurn(a, "save")
        k == OutputKey[w]
        text == IF k \in DOMAIN g.context THEN g.context[k] ELSE MissingText
    IN  save_response_to_file_and_db([g EXCEPT !.key = k], text, w, o)

\* ------------------------------------------------- the handler's own state

\* The state of a handler before its connection is accepted.
NewConn ==
    [pc |-> "init", sid |-> "s1", gen |-> 0,
     inbox |-> <<>>, sent |-> 0, peer |-> "open", client_state |-> "CONNECTED",
     buf |-> "", frags |-> "", tx |-> <<>>, sends |-> 0, pulled |-> 0,
     term |-> "none", outcome |-> "none", last |-> "none", carried |-> "",
     unread |-> {}, log |-> <<>>,
     turn |-> 0, faults |-> 0, lost |-> [pc |-> "none", pulled |-> 0, turn |-> 0]]

\* No connection yet, no session registered (line 27).  `run` never changes:
\* it says which clients connect during the run, under which sessionIds,
\* and how far each goes.  The agents are those of a process without a
\* Firebase app; no turn of theirs is followed here.
Init ==
    /\ conn = [c \in Conns |-> NewConn]
    /\ registry = [s \in SessionIds |-> 0]
    /\ run = [clients |-> {"c1"}, sids |-> SessionIds,
              texts |-> Chunks \cup RestChunks,
              parts |-> MaxParts, events |-> MaxEvents, msgs |-> MaxMsgs]
    /\ agent = Loaded(FALSE, FALSE)

\* The same server with two clients connecting under one sessionId.
InitShared ==
    /\ conn = [c \in Conns |-> NewConn]
    /\ registry = [s \in SessionIds |-> 0]
    /\ run = [clients |-> Conns, sids |-> {"s1"}, texts |-> SharedChunks,
              parts |-> SharedMaxParts, events |-> SharedMaxEvents,
              msgs |-> SharedMaxMsgs]
    /\ agent = Loaded(FALSE, FALSE)

\* The agents alone: the module is loaded with or without a Firebase app,
\* with or without a Firestore client; no connection is open.
InitAgent ==
    /\ conn = [c \in Conns |-> NewConn]
    /\ registry = [s \in SessionIds |-> 0]
    /\ run = [clients |-> {}, sids |-> SessionIds, texts |-> Chunks,
              parts |-> MaxParts, events |-> MaxEvents, msgs |-> MaxMsgs]
    /\ agent \in {Loaded(apps, ok) : apps, ok \in BOOLEAN}

\* The agents alone, in a process that has its Firestore client.
InitBacked ==
    /\ conn = [c \in Conns |-> NewConn]
    /\ registry = [s \in SessionIds |-> 0]
    /\ run = [clients |-> {}, sids |-> SessionIds, texts |-> Chunks,
              parts |-> MaxParts, events |-> MaxEvents, msgs |-> MaxMsgs]
    /\ agent = Loaded(TRUE, TRUE)

\* --------------------------------------------------------- pure helpers

\* A buffer that puts the newest chunk first.
AddToBufferInFront(buf, ev) ==
    IF ev.parts # <<>> /\ ev.partial
    THEN IF ev.parts[1] # "" THEN ev.parts[1] \o buf ELSE buf
    ELSE buf

\* A buffer that takes the text of every part of the event, not of the first.
AddToBufferAllParts(buf, ev) ==
    LET join[i \in 0..Len(ev.parts)] ==
            IF i = 0 THEN "" ELSE join[i - 1] \o ev.parts[i]
    IN  IF ev.parts # <<>> /\ ev.partial THEN buf \o join[Len(ev.parts)] ELSE buf

\* Lines 85-92: the text of the first part of an event flagged partial is
\* appended to the buffer; every other event leaves the buffer as it is.
AddToBuffer(buf, ev) ==
    IF ev.parts # <<>> /\ ev.partial
    THEN IF ev.parts[1] # "" THEN buf \o ev.parts[1] ELSE buf
    ELSE buf

\* The fragment a PartialText event carries: the text of an event flagged
\* partial (lines 86-91 read it from the first part); "" for any other event.
FragmentOf(ev) ==
    IF ev.partial /\ Len(ev.parts) >= 1 THEN ev.parts[1] ELSE ""

\* The texts an event carries in the parts after the first, which the code
\* never reads (line 89 takes parts[0]).
UnreadOf(ev) == {ev.parts[i] : i \in 2..Len(ev.parts)} \ {""}

\* A PartialText event: one that carries a fragment.
IsPartialText(ev) == FragmentOf(ev) # ""

\* websocket.send_text: the write succeeds while the peer is there; once the
\* peer is gone it raises, WebSocketDisconnect or another exception
\* depending on the framework's version and on where the failure is noticed.
SendOutcomes(peer) ==
    IF peer = "open" THEN {"ok"} ELSE {"disconnect", "error"}

\* One call of websocket.send_text(json.dumps(frame)) with outcome o.
Write(h, frame, o) ==
    [h EXCEPT !.sends = @ + 1,
              !.tx = IF o = "ok" THEN Append(@, frame) ELSE @]

\* process_and_send_agent_events is left: its locals are gone, the handler
\* is back in the loop at line 156 and awaits the next message.
Return(h, how) ==
    [h EXCEPT !.pc = "recv", !.outcome = how, !.buf = "",
              !.carried = "", !.unread = {}]

\* Lines 102-106: an exception raised inside the try block.  A
\* WebSocketDisconnect is re-raised, leaves the loop (line 158) and ends in
\* the finally block; any other exception goes to the handler of line 105.
Caught(h, o) ==
    IF o = "disconnect"
    THEN [h EXCEPT !.pc = "fin", !.outcome = "raised", !.buf = "",
                   !.carried = "", !.unread = {},
                   !.log = Append(@, "WebSocket disconnected")]
    ELSE [h EXCEPT !.pc = "err", !.log = Append(@, "Error in process")]

\* One call of send_text inside the try block, with each outcome it may
\* have: the pair of the outcome and the handler's state after the call.
Attempt(h, frame) ==
    {<<o, Write(h, frame, o)>> : o \in SendOutcomes(h.peer)}

\* ------------------------------------------- process_and_send_agent_events

\* The marker of line 72 moved inside the `if` of line 68: a turn without
\* text returns without writing anything.
OnTurnCompleteSilent(h) ==
    {IF h.buf # ""
     THEN [h EXCEPT !.term = "tc", !.last = "tc", !.pulled = @ + 1, !.pc = "tc_msg"]
     ELSE Return([h EXCEPT !.term = "tc", !.last = "tc", !.pulled = @ + 1],
                 "returned")}

\* Lines 67-74, up to the first await: a turn_complete event.
OnTurnComplete(h) ==
    {[h EXCEPT !.term = "tc", !.last = "tc", !.pulled = @ + 1,
               !.pc = IF h.buf # "" THEN "tc_msg" ELSE "tc_mark"]}

\* Lines 76-83, up to the first await: an interrupted event.
OnInterrupted(h) ==
    {[h EXCEPT !.term = "int", !.last = "int", !.pulled = @ + 1,
               !.pc = IF h.buf # "" THEN "int_msg" ELSE "int_mark"]}

\* A loop body that writes every chunk to the client as it arrives instead of
\* buffering it.
OnContentStreaming(h, ev) ==
    IF IsPartialText(ev)
    THEN {IF r[1] = "ok"
          THEN [r[2] EXCEPT !.frags = @ \o FragmentOf(ev), !.last = "text",
                            !.pulled = @ + 1]
          ELSE Caught(r[2], r[1]) : r \in Attempt(h, MessageFrame(FragmentOf(ev)))}
    ELSE {[h EXCEPT !.last = "other", !.pulled = @ + 1]}

\* A loop body that flushes the buffer as a message frame as soon as an event
\* without text arrives.
OnContentFlushing(h, ev) ==
    IF ~IsPartialText(ev) /\ h.buf # ""
    THEN {IF r[1] = "ok"
          THEN [r[2] EXCEPT !.buf = "", !.last = "other", !.pulled = @ + 1]
          ELSE Caught(r[2], r[1]) : r \in Attempt(h, MessageFrame(h.buf))}
    ELSE {[h EXCEPT !.buf = AddToBuffer(@, ev), !.frags = @ \o FragmentOf(ev),
                    !.last = IF IsPartialText(ev) THEN "text" ELSE "other",
                    !.pulled = @ + 1]}

\* Lines 85-93: any other event; nothing is written, the loop goes on.
OnContent(h, ev) ==
    {[h EXCEPT !.buf = AddToBuffer(@, ev), !.frags = @ \o FragmentOf(ev),
               !.last = IF IsPartialText(ev) THEN "text" ELSE "other",
               !.pulled = @ + 1]}

\* Lines 66-93: the loop body for one event of the stream.  While the
\* function runs, `carried` and `unread` say what the event bound to the
\* loop variable carries in its first part and after it.
Dispatch(h, ev) ==
    LET g == [h EXCEPT !.carried = FragmentOf(ev), !.unread = UnreadOf(ev)] IN
    IF ev.turn_complete THEN OnTurnComplete(g)
    ELSE IF ev.interrupted THEN OnInterrupted(g)
    ELSE OnContent(g, ev)

\* Lines 70-71, after the write of line 69.
AfterCompleteMessage(h) ==
    [h EXCEPT !.buf = "", !.pc = "tc_mark",
              !.log = Append(@, "AGENT TO CLIENT - FULL TURN")]

\* The marker written, but the `return` of line 74 forgotten: the loop goes on.
AfterCompleteMarkerNoReturn(h) ==
    [h EXCEPT !.pc = "iter", !.log = Append(@, "TURN COMPLETE")]

\* Lines 73-74, after the write of line 72.
AfterCompleteMarker(h) ==
    Return([h EXCEPT !.log = Append(@, "TURN COMPLETE")], "returned")

\* Lines 79-80, after the write of line 78.
AfterInterruptedMessage(h) ==
    [h EXCEPT !.buf = "", !.pc = "int_mark",
              !.log = Append(@, "AGENT TO CLIENT - PARTIAL/INTERRUPTED")]

\* The marker written, but the `return` of line 83 forgotten: the loop goes on.
AfterInterruptedMarkerNoReturn(h) ==
    [h EXCEPT !.pc = "iter", !.log = Append(@, "INTERRUPTED")]

\* Lines 82-83, after the write of line 81.
AfterInterruptedMarker(h) ==
    Return([h EXCEPT !.log = Append(@, "INTERRUPTED")], "returned")

\* Lines 97 and 100, after the write of line 96 or 99.
AfterEndOfStream(h) ==
    Return([h EXCEPT !.log =
                Append(@, IF h.buf # "" THEN "AGENT TO CLIENT - END OF STREAM BUFFER"
                          ELSE "Event stream ended")], "returned")

\* Lines 69-71: the buffered text of a completed turn.
FlushComplete(h) ==
    {IF r[1] = "ok" THEN AfterCompleteMessage(r[2]) ELSE Caught(r[2], r[1]) :
        r \in Attempt(h, MessageFrame(h.buf))}

\* Lines 72-74: the marker of a completed turn.
MarkComplete(h) ==
    {IF r[1] = "ok" THEN AfterCompleteMarker(r[2]) ELSE Caught(r[2], r[1]) :
        r \in Attempt(h, TurnCompleteFrame)}

\* Lines 78-80: the buffered text of an interrupted turn.
FlushInterrupted(h) ==
    {IF r[1] = "ok" THEN AfterInterruptedMessage(r[2]) ELSE Caught(r[2], r[1]) :
        r \in Attempt(h, MessageFrame(h.buf))}

\* Lines 81-83: the marker of an interrupted turn.
MarkInterrupted(h) ==
    {IF r[1] = "ok" THEN AfterInterruptedMarker(r[2]) ELSE Caught(r[2], r[1]) :
        r \in Attempt(h, InterruptedFrame)}

\* Lines 95-100: the stream ended without a terminal event.
FlushEndOfStream(h) ==
    {IF r[1] = "ok" THEN AfterEndOfStream(r[2]) ELSE Caught(r[2], r[1]) :
        r \in Attempt(h, IF h.buf # "" THEN EndOfStreamFrame(h.buf)
                         ELSE TurnCompleteFrame)}

\* An error handler that reports the text buffered so far along with the
\* error.
HandleErrorFlushing(h) ==
    LET frame == IF h.buf # "" THEN Frame(<<h.buf>>, <<"e">>, FALSE, TRUE)
                 ELSE ErrorFrame
    IN  IF h.client_state # "DISCONNECTED"
        THEN {Return(IF o = "ok" THEN Write(h, frame, o)
                     ELSE [Write(h, frame, o) EXCEPT
                              !.log = Append(@, "Could not send error to client")],
                     "handled") : o \in SendOutcomes(h.peer)}
        ELSE {Return(h, "handled")}

\* An error handler that writes without looking at the client state.
HandleErrorUnguarded(h) ==
    {Return(IF o = "ok" THEN Write(h, ErrorFrame, o)
            ELSE [Write(h, ErrorFrame, o) EXCEPT
                     !.log = Append(@, "Could not send error to client")],
            "handled") : o \in SendOutcomes(h.peer)}

\* An error handler that raises again after its report: the exception leaves
\* the loop of websocket_endpoint.
HandleErrorFatal(h) ==
    IF h.client_state # "DISCONNECTED"
    THEN {[Write(h, ErrorFrame, o) EXCEPT !.pc = "fin", !.outcome = "raised",
                                          !.buf = "", !.carried = "",
                                          !.unread = {}] :
             o \in SendOutcomes(h.peer)}
    ELSE {[h EXCEPT !.pc = "fin", !.outcome = "raised", !.buf = "",
                    !.carried = "", !.unread = {}]}

\* Lines 107-111: one write of the error frame unless the client state is
\* DISCONNECTED; an exception of that write is swallowed.
HandleError(h) ==
    IF h.client_state # "DISCONNECTED"
    THEN {Return(IF o = "ok" THEN Write(h, ErrorFrame, o)
                 ELSE [Write(h, ErrorFrame, o) EXCEPT
                          !.log = Append(@, "Could not send error to client")],
                 "handled") : o \in SendOutcomes(h.peer)}
    ELSE {Return(h, "handled")}

\* ------------------------------------------------------ websocket_endpoint

\* Lines 38-42: session_service.create_session registers a fresh session
\* under the id, replacing the one registered before; the registry keeps,
\* per id, the number of the session it holds (0: none).
CreateSession(reg, s) == [reg EXCEPT ![s] = @ + 1]

\* Lines 131-136: the connection is accepted and the session is set up.
Accepted(h, s, reg) ==
    [h EXCEPT !.pc = "recv", !.sid = s, !.gen = CreateSession(reg, s)[s]]

\* Lines 139-155, up to the first await of process_and_send_agent_events:
\* a user text starts a turn, with an empty buffer (line 63).
StartTurn(h) ==
    [h EXCEPT !.pc = "iter", !.inbox = Tail(@), !.turn = @ + 1,
              !.buf = "", !.frags = "", !.tx = <<>>, !.sends = 0, !.pulled = 0,
              !.term = "none", !.outcome = "none", !.last = "none",
              !.carried = "", !.unread = {},
              !.log = <<"Starting to process event stream">>]

\* Lines 139 and 160-162: receive_text raises on a frame that is not text;
\* the exception is not a WebSocketDisconnect and ends the loop.
BadFrame(h) ==
    [h EXCEPT !.pc = "ep_err", !.inbox = Tail(@),
              !.buf = "", !.frags = "", !.tx = <<>>, !.sends = 0, !.pulled = 0,
              !.term = "none", !.outcome = "none", !.last = "none",
              !.carried = "", !.unread = {},
              !.log = <<"Unhandled error in websocket_endpoint">>]

\* Lines 139 and 158-159: the client has gone and nothing is left to read;
\* receive_text raises WebSocketDisconnect and the client state becomes
\* DISCONNECTED.
Disconnected(h) ==
    [h EXCEPT !.pc = "fin", !.client_state = "DISCONNECTED"]

\* Lines 163-169: as lines 107-111, then the finally block.
EndpointError(h) ==
    IF h.client_state # "DISCONNECTED"
    THEN {[Write(h, ErrorFrame, o) EXCEPT !.pc = "fin"] : o \in SendOutcomes(h.peer)}
    ELSE {[h EXCEPT !.pc = "fin"]}

\* Lines 170-187: nothing is removed from the session service (the cleanup
\* of lines 173-180 is commented out); the websocket is closed unless the
\* client state is DISCONNECTED.
Closed(h) ==
    [h EXCEPT !.pc = "closed",
              !.peer = IF h.client_state # "DISCONNECTED" THEN "gone" ELSE @]

\* The cleanup of lines 173-180 in force: the session is deleted.
DeleteSession(reg, s) == [reg EXCEPT ![s] = 0]

\* What the finally block leaves of the session registry.
AfterClose(reg, s) == reg

\* ----------------------------------------------------------------- actions

Set(c, h) == conn' = [conn EXCEPT ![c] = h] /\ UNCHANGED <<run, agent>>

\* A client opens /ws/{s}.
Connect(c) ==
    /\ conn[c].pc = "init"
    /\ c \in run.clients
    /\ \E s \in run.sids :
          /\ Set(c, Accepted(conn[c], s, registry))
          /\ registry' = CreateSession(registry, s)

\* The client sends a frame, text or binary; the transport queues it.
ClientSend(c) ==
    /\ conn[c].pc \notin {"init", "closed"}
    /\ conn[c].peer = "open"
    /\ conn[c].sent < run.msgs
    /\ \E m \in {"text", "binary"} :
          Set(c, [conn[c] EXCEPT !.inbox = Append(@, m), !.sent = @ + 1])
    /\ UNCHANGED registry

\* Where the handler was when its client went away: consuming the stream of
\* which turn, after how many events; or elsewhere.
LostAt(h) ==
    IF h.pc = "iter"
    THEN [pc |-> "iter", pulled |-> h.pulled, turn |-> h.turn]
    ELSE [pc |-> "elsewhere", pulled |-> 0, turn |-> 0]

\* The client goes away.
ClientDisconnect(c) ==
    /\ conn[c].pc \notin {"init", "closed"}
    /\ conn[c].peer = "open"
    /\ Set(c, [conn[c] EXCEPT !.peer = "gone", !.lost = LostAt(conn[c])])
    /\ UNCHANGED registry

\* The framework notices that the client has gone and sets client_state.
TransportNoticesDisconnect(c) ==
    /\ conn[c].pc \notin {"init", "closed"}
    /\ conn[c].peer = "gone"
    /\ conn[c].client_state = "CONNECTED"
    /\ Set(c, [conn[c] EXCEPT !.client_state = "DISCONNECTED"])
    /\ UNCHANGED registry

\* await websocket.receive_text() returns or raises.
Receive(c) ==
    /\ conn[c].pc = "recv"
    /\ \/ /\ conn[c].inbox # <<>>
          /\ Head(conn[c].inbox) = "text"
          /\ Set(c, StartTurn(conn[c]))
       \/ /\ conn[c].inbox # <<>>
          /\ Head(conn[c].inbox) = "binary"
          /\ Set(c, BadFrame(conn[c]))
       \/ /\ conn[c].inbox = <<>>
          /\ conn[c].peer = "gone"
          /\ Set(c, Disconnected(conn[c]))
    /\ UNCHANGED registry

\* The stream yields its next event.
Iterate(c) ==
    /\ conn[c].pc = "iter"
    /\ conn[c].pulled < run.events
    /\ \E ev \in Events :
          /\ Len(ev.parts) <= run.parts
          /\ \A i \in 1..Len(ev.parts) : ev.parts[i] \in run.texts
          /\ \E h \in Dispatch(conn[c], ev) : Set(c, h)
    /\ UNCHANGED registry

\* The stream is exhausted: the loop of line 66 ends.
StreamEnds(c) ==
    /\ conn[c].pc = "iter"
    /\ Set(c, [conn[c] EXCEPT !.pc = "eos", !.term = "eos"])
    /\ UNCHANGED registry

\* The stream raises: the agent runtime failed while producing an event.
StreamRaises(c) ==
    /\ conn[c].pc = "iter"
    /\ Set(c, [Caught(conn[c], "error") EXCEPT !.term = "exc", !.faults = @ + 1])
    /\ UNCHANGED registry

\* await websocket.send_text of line 69.
SendCompleteMessage(c) ==
    /\ conn[c].pc = "tc_msg"
    /\ \E h \in FlushComplete(conn[c]) : Set(c, h)
    /\ UNCHANGED registry

\* await websocket.send_text of line 72.
SendCompleteMarker(c) ==
    /\ conn[c].pc = "tc_mark"
    /\ \E h \in MarkComplete(conn[c]) : Set(c, h)
    /\ UNCHANGED registry

\* await websocket.send_text of line 78.
SendInterruptedMessage(c) ==
    /\ conn[c].pc = "int_msg"
    /\ \E h \in FlushInterrupted(conn[c]) : Set(c, h)
    /\ UNCHANGED registry

\* await websocket.send_text of line 81.
SendInterruptedMarker(c) ==
    /\ conn[c].pc = "int_mark"
    /\ \E h \in MarkInterrupted(conn[c]) : Set(c, h)
    /\ UNCHANGED registry

\* await websocket.send_text of line 96 or 99.
SendEndOfStream(c) ==
    /\ conn[c].pc = "eos"
    /\ \E h \in FlushEndOfStream(conn[c]) : Set(c, h)
    /\ UNCHANGED registry

\* The handler of line 105 and its write of line 109.
SendError(c) ==
    /\ conn[c].pc = "err"
    /\ \E h \in HandleError(conn[c]) : Set(c, h)
    /\ UNCHANGED registry

\* The handler of line 160 and its write of line 166.
SendEndpointError(c) ==
    /\ conn[c].pc = "ep_err"
    /\ \E h \in EndpointError(conn[c]) : Set(c, h)
    /\ UNCHANGED registry

\* The finally block.
Finally(c) ==
    /\ conn[c].pc = "fin"
    /\ Set(c, Closed(conn[c]))
    /\ registry' = AfterClose(registry, conn[c].sid)

Next ==
    \E c \in Conns :
        \/ Connect(c)
        \/ ClientSend(c)
        \/ ClientDisconnect(c)
        \/ TransportNoticesDisconnect(c)
        \/ Receive(c)
        \/ Iterate(c)
        \/ StreamEnds(c)
        \/ StreamRaises(c)
        \/ SendCompleteMessage(c)
        \/ SendCompleteMarker(c)
        \/ SendInterruptedMessage(c)
        \/ SendInterruptedMarker(c)
        \/ SendEndOfStream(c)
        \/ SendError(c)
        \/ SendEndpointError(c)
        \/ Finally(c)

Spec == Init /\ [][Next]_vars

SpecShared == InitShared /\ [][Next]_vars

\* A turn that asks root_agent a question.
Query ==
    /\ agent.turn < MaxTurns
    /\ \E out \in GroupOutputs : agent' = OnQuery(agent, out)
    /\ UNCHANGED <<conn, registry, run>>

\* A turn that asks root_agent to save the response of one worker.
SaveRequest ==
    /\ agent.turn < MaxTurns
    /\ \E w \in Workers, o \in {"ok", "fail"} :
          agent' = OnSaveRequest(agent, w, o)
    /\ UNCHANGED <<conn, registry, run>>

NextAgent == Query \/ SaveRequest

SpecAgent == InitAgent /\ [][NextAgent]_vars

SpecBacked == InitBacked /\ [][NextAgent]_vars

\* ------------------------------------------------------------ the claims

\* The text of the message frames of tx, concatenated in the order written.
RECURSIVE ConcatMessages(_)
ConcatMessages(tx) ==
    IF tx = <<>> THEN ""
    ELSE (IF Head(tx).message # <<>> THEN Head(tx).message[1] ELSE "")
             \o ConcatMessages(Tail(tx))

\* The places of tx that hold a frame carrying turn_complete: true.
TerminalFrames(tx) == {i \in 1..Len(tx) : tx[i].turn_complete}

\* C1. Lossless reassembly: whatever the fragments of a turn, the message
\* frames written so far carry either nothing or all the text consumed, in
\* the order consumed; once the buffer has been flushed on a terminal event,
\* and when process_and_send_agent_events has returned, they carry all of it.
C1_LosslessReassembly ==
    \A c \in Conns :
        LET h == conn[c] IN
        /\ ConcatMessages(h.tx) \in {"", h.frags}
        /\ h.pc \in {"tc_mark", "int_mark"} => ConcatMessages(h.tx) = h.frags
        /\ h.outcome = "returned" => ConcatMessages(h.tx) = h.frags

\* Two different fragments, then a terminal event: the frames carry "ab".
C1_Witness ==
    \E c \in Conns :
        /\ conn[c].outcome = "returned"
        /\ conn[c].term \in {"tc", "int"}
        /\ conn[c].frags = "ab"
        /\ ConcatMessages(conn[c].tx) = "ab"

\* The frames a flush of the turn's text writes: one message frame, or none
\* when the turn had no text.
Flushed(h) == IF h.frags # "" THEN <<MessageFrame(h.frags)>> ELSE <<>>

\* C2 as stated: every turn that is over, however its stream ended, has
\* exactly one frame carrying turn_complete: true.
C2_ExactlyOneTerminalFrame ==
    \A c \in Conns :
        conn[c].outcome # "none" => Cardinality(TerminalFrames(conn[c].tx)) = 1

\* C2, amended: a turn never has more than one frame carrying
\* turn_complete: true and no frame follows that one; a turn that is over
\* while its client is still there has exactly one, however its stream ended.
C2_AtMostOneTerminalFrame ==
    \A c \in Conns :
        LET h == conn[c]
            T == TerminalFrames(h.tx)
        IN  /\ Cardinality(T) <= 1
            /\ T # {} => T = {Len(h.tx)}
            /\ h.outcome \in {"returned", "handled"} /\ h.peer = "open"
                  => Cardinality(T) = 1

\* The stream raised after some text, the client is there: the error frame
\* is the turn's one terminal frame.
C2_Witness ==
    \E c \in Conns :
        /\ conn[c].term = "exc"
        /\ conn[c].outcome = "handled"
        /\ conn[c].frags # ""
        /\ conn[c].tx = <<ErrorFrame>>

\* C4 as stated: once an event that is not a PartialText has been handled
\* and the loop is back at line 66, the text buffered before it has been
\* written as a message frame and the buffer is empty.
C4_FlushOnEveryNonText ==
    \A c \in Conns :
        LET h == conn[c] IN
        h.pc = "iter" /\ h.last = "other" /\ h.frags # ""
            => h.buf = "" /\ ConcatMessages(h.tx) = h.frags

\* C4, amended: the buffer is flushed, as one message frame, only on a
\* turn_complete event, on an interrupted event and at the end of the
\* stream.  While events are consumed nothing is written and the buffer
\* holds all the text so far, whatever events arrived; after the flush on
\* turn_complete or interrupted the buffer is empty.
C4_FlushOnlyOnTerminalOrEnd ==
    \A c \in Conns :
        LET h == conn[c] IN
        /\ h.pc \in {"iter", "eos"} =>
              h.tx = <<>> /\ h.sends = 0 /\ h.buf = h.frags
        /\ h.pc \in {"tc_msg", "int_msg"} =>
              h.tx = <<>> /\ h.buf = h.frags /\ h.buf # ""
        /\ h.pc \in {"tc_mark", "int_mark"} =>
              h.tx = Flushed(h) /\ h.buf = ""
        /\ h.outcome = "returned" /\ h.term = "eos" =>
              h.tx = <<IF h.frags # "" THEN EndOfStreamFrame(h.frags)
                       ELSE TurnCompleteFrame>>

\* An event without text was handled while text was buffered: nothing was
\* written and the text is still in the buffer.
C4_Witness ==
    \E c \in Conns :
        /\ conn[c].pc = "iter"
        /\ conn[c].last = "other"
        /\ conn[c].buf = "ab"
        /\ conn[c].tx = <<>>

\* C5. On a turn_complete event the frames written are the buffered text,
\* if there is any, as one message frame and then the {turn_complete: true}
\* marker; a turn without text has the marker alone; no message frame ever
\* follows a frame carrying turn_complete.
C5_CompleteFlushThenMarker ==
    \A c \in Conns :
        LET h == conn[c] IN
        /\ h.term = "tc" /\ h.pc = "tc_mark" => h.tx = Flushed(h)
        /\ h.term = "tc" /\ h.outcome = "returned" =>
              h.tx = Flushed(h) \o <<TurnCompleteFrame>>
        /\ \A i, j \in 1..Len(h.tx) :
              i < j /\ h.tx[i].turn_complete => h.tx[j].message = <<>>

\* A completed turn with text: the message frame, then the marker.
C5_Witness ==
    \E c \in Conns :
        /\ conn[c].term = "tc"
        /\ conn[c].outcome = "returned"
        /\ conn[c].tx = <<MessageFrame("ab"), TurnCompleteFrame>>

\* C6. On an interrupted event the buffered text is written as a message
\* frame, logged as PARTIAL/INTERRUPTED, then the {interrupted: true,
\* turn_complete: true} marker; the interrupted event is the last event of
\* the stream that is consumed and the marker the last frame of the turn.
C6_InterruptedIsTerminal ==
    \A c \in Conns :
        LET h == conn[c]
            label == IF h.frags # ""
                     THEN <<"AGENT TO CLIENT - PARTIAL/INTERRUPTED">> ELSE <<>>
        IN  h.term = "int" =>
            /\ h.last = "int"
            /\ h.pc \notin {"iter", "eos", "tc_msg", "tc_mark"}
            /\ h.pc = "int_mark" =>
                  /\ h.tx = Flushed(h)
                  /\ h.log = <<"Starting to process event stream">> \o label
            /\ h.outcome = "returned" =>
                  /\ h.tx = Flushed(h) \o <<InterruptedFrame>>
                  /\ h.log = <<"Starting to process event stream">> \o label
                                \o <<"INTERRUPTED">>

\* An interrupted turn with text: the message frame, then the marker.
C6_Witness ==
    \E c \in Conns :
        /\ conn[c].term = "int"
        /\ conn[c].outcome = "returned"
        /\ conn[c].tx = <<MessageFrame("ab"), InterruptedFrame>>

\* C3 as stated: at no time are the event streams of two turns of one
\* session being consumed, on whichever connections the turns run.
C3_SingleActiveTurnPerSession ==
    \A c, d \in Conns :
        (c # d /\ conn[c].sid = conn[d].sid)
            => ~(conn[c].pc = "iter" /\ conn[d].pc = "iter")

\* C7. The handler of an error raised inside the try block makes one write
\* of the error frame when the client state is not DISCONNECTED and none
\* when it is; whether the write succeeds or raises, the function returns
\* to the loop of websocket_endpoint: nothing is written twice, nothing
\* escapes.
C7_OneBestEffortErrorFrame ==
    [][\A c \in Conns :
          (conn[c].pc = "err" /\ conn'[c].pc # "err") =>
              /\ conn'[c].pc = "recv"
              /\ conn'[c].outcome = "handled"
              /\ conn'[c].sends = conn[c].sends
                    + (IF conn[c].client_state # "DISCONNECTED" THEN 1 ELSE 0)
              /\ conn'[c].tx \in {conn[c].tx, Append(conn[c].tx, ErrorFrame)}
              /\ conn[c].client_state = "DISCONNECTED" => conn'[c].tx = conn[c].tx
              /\ conn[c].peer = "open" /\ conn[c].client_state # "DISCONNECTED"
                    => conn'[c].tx = Append(conn[c].tx, ErrorFrame)]_vars

\* The stream raised, the one write of the error frame failed and was
\* swallowed: the handler is back in the loop.
C7_Witness ==
    \E c \in Conns :
        /\ conn[c].term = "exc"
        /\ conn[c].outcome = "handled"
        /\ conn[c].pc = "recv"
        /\ conn[c].sends = 1
        /\ conn[c].tx = <<>>

\* C8. After a fault of the turn's stream the handler is either still
\* handling it or back in its loop awaiting the next message, and leaves the
\* loop only when receive_text reports that the client has disconnected; the
\* session stays registered under the connection's sessionId throughout.
C8_FaultKeepsSession ==
    \A c \in Conns :
        LET h == conn[c] IN
        /\ h.term = "exc" =>
              /\ h.pc \in {"err", "recv", "fin", "closed"}
              /\ h.pc # "err" => h.outcome = "handled"
              /\ h.pc \in {"fin", "closed"} => h.client_state = "DISCONNECTED"
        /\ h.faults >= 1 => registry[h.sid] >= 1 /\ h.gen >= 1

\* A turn ended by a fault of its stream; the next message on the connection
\* has started the next turn, against the session registered at setup.
C8_Witness ==
    \E c \in Conns :
        /\ conn[c].faults = 1
        /\ conn[c].turn = 2
        /\ conn[c].pc = "iter"
        /\ conn[c].pulled = 1
        /\ registry[conn[c].sid] = conn[c].gen

\* The last frame received was a user text: the histories of h are those of
\* the turn it started.
TurnStarted(h) ==
    h.log # <<>> /\ h.log[1] = "Starting to process event stream"

SaysSuccess(outcome) == \E n \in Workers : outcome = <<SuccessMessage(n)>>

\* The tool's outcome says that saving failed, with the reason.
SaysError(outcome) == \E n \in Workers : outcome = <<ErrorMessage(n)>>

\* C11 as stated: when db is None, a call of save_response_to_file_and_db
\* returns an outcome (it does not crash) and the outcome does not report a
\* successful save.
C11_NoBackendIsNotAvailable ==
    (agent.db = "None" /\ agent.calls >= 1) =>
        /\ Len(agent.outcome) = 1
        /\ ~SaysSuccess(agent.outcome)

\* C12 as stated: every call of save_response_to_file_and_db returns a
\* string; the string says success only if the record was written and says
\* error if the write failed.
C12_OutcomeTellsWhatHappened ==
    agent.calls >= 1 =>
        /\ Len(agent.outcome) = 1
        /\ SaysSuccess(agent.outcome) => agent.wrote = "ok"
        /\ agent.wrote = "failed" => SaysError(agent.outcome)

\* C14. A turn that asks to save a worker's response calls the tool once,
\* runs no worker and leaves the context as the turn found it; when the
\* context holds a text under the worker's key, stored by an earlier turn,
\* that text is what the tool is given.
C14_SaveDoesNotRerunGroup ==
    agent.kind = "save" =>
        /\ agent.calls = 1
        /\ agent.runs = 0
        /\ agent.context = agent.before
        /\ agent.key \in DOMAIN agent.before =>
              agent.passed = <<agent.before[agent.key]>>

\* Turn 1 ran the three workers, turn 2 saved the CEO's response: one call
\* of the tool, with the text turn 1 stored, and one record of it.
C14_Witness ==
    /\ agent.turn = 2
    /\ agent.kind = "save"
    /\ agent.key = "ceo_response"
    /\ DOMAIN agent.before = {OutputKey[w] : w \in Workers}
    /\ agent.before["ceo_response"] = "r1"
    /\ agent.runs = 0
    /\ agent.records = <<[agent_name |-> "CEO", response_content |-> "r1"]>>

\* C15 as stated: a turn that asks to save a response whose key the context
\* does not hold (no gather has run, or the worker gave no response) ends
\* without a successful save: no record is written and the outcome does not
\* say success; the context stays as it was.
C15_MissingKeyIsProtocolFault ==
    (agent.kind = "save" /\ agent.key \notin DOMAIN agent.before) =>
        /\ agent.wrote # "ok"
        /\ ~SaysSuccess(agent.outcome)
        /\ agent.context = agent.before

\* The places of tx that hold a frame carrying a message.
MessageFrames(tx) == {i \in 1..Len(tx) : tx[i].message # <<>>}

\* C16. While a turn's stream has yielded neither a terminal event nor its
\* end nor an exception, process_and_send_agent_events has called send_text
\* not once; so the frames of a turn are at most two, at most one of them
\* carrying a message, however many fragments the stream yields.
C16_NothingWrittenWhileBuffering ==
    \A c \in Conns :
        LET h == conn[c] IN
        TurnStarted(h) =>
            /\ h.term = "none" => h.sends = 0 /\ h.tx = <<>>
            /\ Cardinality(MessageFrames(h.tx)) <= 1
            /\ Len(h.tx) <= 2

\* Three fragments, then the end of the stream: one frame carries them all.
C16_Witness ==
    \E c \in Conns :
        /\ conn[c].pulled = 3
        /\ conn[c].frags = "aba"
        /\ conn[c].term = "eos"
        /\ conn[c].outcome = "returned"
        /\ conn[c].tx = <<EndOfStreamFrame("aba")>>

\* C17. When the stream raises, the text buffered so far stays in the buffer
\* and is dropped with it: the turn's frames are the error frame alone, or
\* none when the client state is DISCONNECTED or the write fails; no frame
\* of the turn carries a message.
C17_BufferedTextDroppedOnFault ==
    \A c \in Conns :
        LET h == conn[c] IN
        h.term = "exc" =>
            /\ h.tx \in {<<>>, <<ErrorFrame>>}
            /\ MessageFrames(h.tx) = {}
            /\ h.sends <= 1
            /\ h.pc = "err" => h.tx = <<>> /\ h.sends = 0 /\ h.buf = h.frags
            /\ h.outcome = "handled" /\ h.sends = 0 => h.tx = <<>>
            /\ h.outcome = "handled" /\ h.peer = "open" => h.tx = <<ErrorFrame>>

\* The stream raised after the fragments "a" and "b": the client got the
\* error frame and nothing else.
C17_Witness ==
    \E c \in Conns :
        /\ conn[c].term = "exc"
        /\ conn[c].pulled = 2
        /\ conn[c].frags = "ab"
        /\ conn[c].pc = "recv"
        /\ conn[c].peer = "open"
        /\ conn[c].tx = <<ErrorFrame>>

\* The texts first parts can have put into the buffer after n events.
FirstPartTexts[n \in 0..MaxEvents] ==
    IF n = 0 THEN {""}
    ELSE FirstPartTexts[n - 1]
            \cup {t \o x : t \in FirstPartTexts[n - 1], x \in Chunks}

\* The texts first parts can make up in one turn.
TurnTexts == FirstPartTexts[MaxEvents]

\* C18 as stated: an event that carries no fragment (it is not flagged
\* partial, or has no content, or no text in its first part) causes no frame
\* to be written: while such an event is the last one consumed and the
\* stream has neither ended nor raised, nothing has been written.
C18_NoFrameWithoutFragment ==
    \A c \in Conns :
        LET h == conn[c] IN
        (TurnStarted(h) /\ h.pulled >= 1 /\ h.carried = ""
            /\ h.term \in {"none", "tc", "int"})
            => h.sends = 0 /\ h.tx = <<>>

\* C18, amended: an event that is neither turn_complete nor interrupted
\* adds to the buffer the text of its first part if it is flagged partial
\* and that text is not empty, and nothing otherwise, and no frame is
\* written for it; a turn_complete or interrupted event adds nothing to the
\* buffer; the text of the frames is made of first parts only, text that
\* only later parts carry is in no frame.
C18_OnlyFirstPartIsBuffered ==
    [][\A c \in Conns :
          LET h == conn[c]
              g == conn'[c]
          IN  /\ (h.pc = "iter" /\ g.pulled = h.pulled + 1) =>
                    /\ g.last \in {"text", "other"} =>
                          /\ g.buf = h.buf \o g.carried
                          /\ (g.last = "other") = (g.carried = "")
                          /\ g.pc = "iter" /\ g.tx = h.tx /\ g.sends = h.sends
                    /\ g.last \in {"tc", "int"} => g.buf = h.buf
              /\ h.pc # "iter" /\ g.buf # "" => g.buf = h.buf
              /\ g.buf \in TurnTexts
              /\ ConcatMessages(g.tx) \in TurnTexts]_vars

\* After the fragment "b", an event flagged partial with "a" in its first
\* part and "z" in its second has been consumed: the buffer holds "ba" and
\* nothing has been written.
C18_Witness ==
    \E c \in Conns :
        /\ conn[c].pc = "iter"
        /\ conn[c].pulled = 2
        /\ conn[c].carried = "a"
        /\ conn[c].unread = {"z"}
        /\ conn[c].buf = "ba"
        /\ conn[c].tx = <<>>

====
